---- MODULE Spec2Model ----
(***************************************************************************)
(* Model of the dashboard host process (main.py): the gauge value engine   *)
(* (clamp100, piecewise_linear, the weather classifier and the five        *)
(* scoring functions) and the sampling loop of main().                     *)
(*                                                                         *)
(* Real numbers are exact rationals <<num, den>> with den > 0, kept in     *)
(* lowest terms.  Times are whole seconds; accumulators are milliseconds.  *)
(* Device lines are sequences of one-character strings.                    *)
(***************************************************************************)
EXTENDS Integers, Sequences, FiniteSets, TLC

----------------------------------------------------------------------------
(* Program constants *)

WEATHER_POLL_SEC == 300
TRAFFIC_POLL_SEC == 120
PRINT_EVERY_SEC == 1
WeatherTimeoutSec == 6
RouteTimeoutSec == 8

(* Model bounds *)

T0 == 600               \* clock reading at process start (seconds)
TimeStep == 200         \* granularity of the clock readings of the ticks
MaxTimeSteps == 2       \* tick readings range over T0 .. T0 + 2 * TimeStep
MaxTotalMs == 400000    \* cap on totalAccumulatedMs
MaxInbound == 2         \* lines the transport buffers at once
MaxLines == 2           \* lines the device sends in a run

Times == { T0 + TimeStep * k : k \in 0..MaxTimeSteps }

----------------------------------------------------------------------------
(* Exact rational arithmetic standing in for Python floats *)

Abs(n) == IF n < 0 THEN -n ELSE n

RECURSIVE GCD(_, _)
GCD(a, b) == IF b = 0 THEN a ELSE GCD(b, a % b)

Rat(n, d) ==
    LET g == GCD(Abs(n), d) IN <<n \div g, d \div g>>

R(n) == <<n, 1>>

RLe(a, b) == a[1] * b[2] <= b[1] * a[2]
RLt(a, b) == a[1] * b[2] < b[1] * a[2]
RAdd(a, b) == Rat(a[1] * b[2] + b[1] * a[2], a[2] * b[2])
RSub(a, b) == Rat(a[1] * b[2] - b[1] * a[2], a[2] * b[2])
RMul(a, b) == Rat(a[1] * b[1], a[2] * b[2])
RDiv(a, b) ==
    IF b[1] > 0 THEN Rat(a[1] * b[2], a[2] * b[1])
    ELSE Rat(-(a[1] * b[2]), a[2] * (-b[1]))
RMax(a, b) == IF RLe(b, a) THEN a ELSE b
RMin(a, b) == IF RLe(a, b) THEN a ELSE b

(* Python 3 round(): nearest integer, ties to the even one *)
PyRound(x) ==
    LET q == x[1] \div x[2]
        r == x[1] % x[2]
    IN  IF 2 * r < x[2] THEN q
        ELSE IF 2 * r > x[2] THEN q + 1
        ELSE IF q % 2 = 0 THEN q ELSE q + 1

IMax(a, b) == IF a >= b THEN a ELSE b
IMin(a, b) == IF a <= b THEN a ELSE b

----------------------------------------------------------------------------
(* Value mapper *)

clamp100_unclamped(x) == PyRound(x)

clamp100(x) == IMax(0, IMin(100, PyRound(x)))

lerp_missing_t(a, b, t) == RAdd(a, RSub(b, a))

lerp(a, b, t) == RAdd(a, RMul(RSub(b, a), t))

(* sorted(points, key=lambda p: p[0]): stable insertion sort on x *)
RECURSIVE InsertPoint(_, _)
InsertPoint(p, s) ==
    IF s = <<>> THEN <<p>>
    ELSE IF RLt(p[1], Head(s)[1]) THEN <<p>> \o s
    ELSE <<Head(s)>> \o InsertPoint(p, Tail(s))

RECURSIVE SortPoints(_)
SortPoints(points) ==
    IF points = <<>> THEN <<>>
    ELSE InsertPoint(points[Len(points)],
                     SortPoints(SubSeq(points, 1, Len(points) - 1)))

(* the for loop over zip(points, points[1:]) from segment i on *)
RECURSIVE Segments(_, _, _)
Segments(x, pts, i) ==
    IF i >= Len(pts) THEN pts[Len(pts)][2]
    ELSE LET x0 == pts[i][1]
             y0 == pts[i][2]
             x1 == pts[i + 1][1]
             y1 == pts[i + 1][2]
         IN  IF RLe(x0, x) /\ RLe(x, x1)
             THEN lerp(y0, y1, IF x1 # x0 THEN RDiv(RSub(x, x0), RSub(x1, x0))
                                          ELSE R(0))
             ELSE Segments(x, pts, i + 1)

piecewise_linear(x, points) ==
    LET pts == SortPoints(points)
    IN  IF RLe(x, pts[1][1]) THEN pts[1][2]
        ELSE IF RLe(pts[Len(pts)][1], x) THEN pts[Len(pts)][2]
        ELSE Segments(x, pts, 1)

(* a curve given by integer anchors *)
Pts(s) == [i \in 1..Len(s) |-> <<R(s[i][1]), R(s[i][2])>>]

----------------------------------------------------------------------------
(* Weather classifier *)

CloudCodes == {1, 2, 3, 45, 48}
ThunderCodes == {95, 96, 99}
SnowCodes == {71, 73, 75, 77, 85, 86}
RainCodes == {51, 53, 55, 56, 57, 61, 63, 65, 66, 67, 80, 81, 82}
SevereCodes == {96, 99}

wmo_to_kind_severe_first(wcode_, wind_) ==
    LET base == IF wcode_ = 0 THEN "sunny"
                ELSE IF wcode_ \in CloudCodes THEN "cloudy"
                ELSE IF wcode_ \in ThunderCodes THEN "thunder"
                ELSE IF wcode_ \in SnowCodes THEN "snow"
                ELSE IF wcode_ \in RainCodes THEN "rain"
                ELSE "cloudy"
        severe == IF wcode_ \in SevereCodes THEN "severe" ELSE base
    IN  IF wind_ >= 20 /\ severe # "thunder" THEN "wind" ELSE severe

wmo_to_kind(wcode_, wind_) ==
    LET base == IF wcode_ = 0 THEN "sunny"
                ELSE IF wcode_ \in CloudCodes THEN "cloudy"
                ELSE IF wcode_ \in ThunderCodes THEN "thunder"
                ELSE IF wcode_ \in SnowCodes THEN "snow"
                ELSE IF wcode_ \in RainCodes THEN "rain"
                ELSE "cloudy"
        windy == IF wind_ >= 20 /\ base # "thunder" THEN "wind" ELSE base
    IN  IF wcode_ \in SevereCodes THEN "severe" ELSE windy

WEATHER_TICKS ==
    [sunny |-> 95, cloudy |-> 75, rain |-> 57, thunder |-> 45,
     snow |-> 30, wind |-> 20, severe |-> 10]

weather_value(kind) ==
    clamp100(R(IF kind \in DOMAIN WEATHER_TICKS THEN WEATHER_TICKS[kind]
               ELSE 75))

----------------------------------------------------------------------------
(* Scoring functions.  t is the reading of time.time() taken by water_value *)

temp_value(temp_) == clamp100(R(100 - temp_))

water_value(last_water_, t) ==
    LET hours == Rat(t - last_water_, 3600)
    IN  IF RLe(R(4), hours) THEN 5
        ELSE clamp100(piecewise_linear(hours,
                 Pts(<< <<0, 95>>, <<1, 70>>, <<2, 52>>, <<3, 25>>, <<4, 5>> >>)))

stand_value(stand_, total_) ==
    IF total_ <= 0 THEN 100
    ELSE LET pct == RMax(R(0), RMin(R(40), Rat(stand_ * 100, total_)))
         IN  clamp100(piecewise_linear(pct,
                 Pts(<< <<0, 100>>, <<25, 50>>, <<40, 10>> >>)))

event_value(seconds_left) ==
    LET h == Rat(seconds_left, 3600)
    IN  IF RLe(h, R(0)) THEN 30
        ELSE IF RLe(R(12), h) THEN 90
        ELSE clamp100(piecewise_linear(h,
                 Pts(<< <<0, 30>>, <<6, 70>>, <<8, 80>>, <<10, 85>>,
                        <<12, 90>> >>)))

commute_value(minutes) ==
    LET m == IMax(12, IMin(45, minutes))
    IN  clamp100(piecewise_linear(R(m),
            Pts(<< <<12, 100>>, <<18, 65>>, <<45, 30>> >>)))

(* vals of main(): the six scores in frame order *)
GaugeVals(tf, wc, wm, lw, t, sm, tm, target, nw, cm) ==
    << weather_value(wmo_to_kind(wc, wm)),
       temp_value(tf),
       water_value(lw, t),
       stand_value(sm, tm),
       event_value(target - nw),
       commute_value(cm) >>

(* the message of send_update: the tag U and the clamped values *)
send_update(vals_) ==
    <<"U">> \o [i \in 1..Len(vals_) |-> clamp100(R(vals_[i]))]

----------------------------------------------------------------------------
(* Device lines: raw bytes of one line without its terminator.  "0xFF" is  *)
(* a byte that is not valid UTF-8, " " is whitespace.                       *)

L_EMPTY == <<>>
L_WATER == <<"B", ",", "W", "A", "T", "E", "R">>
L_STAND == <<"S", ",", "1", " ">>
L_SIT == <<"S", ",", "0">>
L_BADBIT == <<"S", ",", "2">>
L_UNKNOWN == <<"0xFF", "X", ",", "1">>

DeviceLines == {L_EMPTY, L_WATER, L_STAND, L_SIT, L_BADBIT, L_UNKNOWN}

IsSpace(c) == c \in {" ", "\t", "\r", "\n"}

(* bytes.decode(errors="ignore") *)
Decode(raw) == SelectSeq(raw, LAMBDA c : c # "0xFF")

RECURSIVE LStrip(_)
LStrip(s) ==
    IF s # <<>> /\ IsSpace(Head(s)) THEN LStrip(Tail(s)) ELSE s

RECURSIVE RStrip(_)
RStrip(s) ==
    IF s # <<>> /\ IsSpace(s[Len(s)]) THEN RStrip(SubSeq(s, 1, Len(s) - 1))
    ELSE s

Strip(s) == RStrip(LStrip(s))

StartsWith(s, prefix) ==
    Len(s) >= Len(prefix) /\ SubSeq(s, 1, Len(prefix)) = prefix

EndsWith(s, c) == s # <<>> /\ s[Len(s)] = c

(* ser.readline().decode(errors="ignore").strip() *)
ReadLine(raw) == Strip(Decode(raw))

----------------------------------------------------------------------------
(* External readings the data sources can return *)

WeatherReadings == { <<72, 1, 5>>, <<-10, 96, 25>> }
CommuteReadings == { 20, 60 }
EventTargets == { T0 + 25200 }

----------------------------------------------------------------------------
(* State of main() *)

NoTime == <<>>
DefaultWeather == <<50, 3, 0>>
DefaultCommute == 18

VARIABLES
    pc,                 \* position in the loop body
    ORS_API_KEY,        \* TRUE iff a routing credential is configured
    event_target_epoch,
    now,
    last_water_ts,
    standing,
    stand_ms,
    total_ms,
    last_state_ts,
    temp_f,
    wcode,
    wind_mph,
    commute_min,
    last_weather_poll,
    last_traffic_poll,
    last_print,
    inbound,            \* lines waiting at the transport (ser.in_waiting)
    out,                \* the last message written to the transport
    elapsed,            \* seconds spent in this tick since now was read
    nsent,              \* lines the device has sent so far
    nframes,            \* frames written in the current tick
    unread,             \* lines present when the drain began, still unread
    drainedWater,       \* a hydration marker was drained in this tick
    wxTry,              \* weather fetch of this tick: none, fail or reading
    cmTry,              \* commute fetch of this tick: none, fail or minutes
    sawStand,           \* a posture line ending in 1 has been drained
    sawStandBefore,     \* ... in a tick before the current one
    wxFailAt,           \* tick time of the latest weather fetch if it failed
    cmFailAt            \* tick time of the latest commute fetch if it failed

cfg == <<ORS_API_KEY, event_target_epoch>>
posture == <<standing, stand_ms, total_ms, last_state_ts>>
weather == <<temp_f, wcode, wind_mph>>
polls == <<last_weather_poll, last_traffic_poll>>
hist == <<nframes, unread, drainedWater, wxTry, cmTry, sawStand,
          sawStandBefore, wxFailAt, cmFailAt>>

vars == <<pc, cfg, now, last_water_ts, posture, weather, commute_min, polls,
          last_print, inbound, out, elapsed, nsent, hist>>

(* the RuntimeState of the sampling loop *)
RuntimeState == <<last_water_ts, posture, weather, commute_min, polls,
                  last_print, event_target_epoch>>

Init ==
    /\ pc = "sleep"
    /\ ORS_API_KEY \in BOOLEAN
    /\ event_target_epoch \in EventTargets
    /\ now = T0
    /\ last_water_ts = T0
    /\ standing = FALSE
    /\ stand_ms = 0
    /\ total_ms = 0
    /\ last_state_ts = T0
    /\ temp_f = DefaultWeather[1]
    /\ wcode = DefaultWeather[2]
    /\ wind_mph = DefaultWeather[3]
    /\ commute_min = DefaultCommute
    /\ last_weather_poll = 0
    /\ last_traffic_poll = 0
    /\ last_print = 0
    /\ inbound = <<>>
    /\ out = <<>>
    /\ elapsed = 0
    /\ nsent = 0
    /\ nframes = 0
    /\ unread = 0
    /\ drainedWater = FALSE
    /\ wxTry = <<"none">>
    /\ cmTry = <<"none">>
    /\ sawStand = FALSE
    /\ sawStandBefore = FALSE
    /\ wxFailAt = NoTime
    /\ cmFailAt = NoTime

----------------------------------------------------------------------------
(* The device puts a line on the transport.  The loop looks at the        *)
(* transport only while it drains, so a line that arrives later in a tick  *)
(* is the same to it as one that arrives during the sleep.                 *)

DeviceWrite ==
    /\ pc \in {"sleep", "drain"}
    /\ nsent < MaxLines
    /\ Len(inbound) < MaxInbound
    /\ \E l \in DeviceLines : inbound' = Append(inbound, l)
    /\ nsent' = nsent + 1
    /\ UNCHANGED <<pc, cfg, now, last_water_ts, posture, weather, commute_min,
                   polls, last_print, out, elapsed, hist>>

----------------------------------------------------------------------------
(* Step a: read the clock and accumulate sit/stand time *)

AccumDelta_signed(dt) == dt * 1000

AccumDelta(dt) == IF dt > 0 THEN dt * 1000 ELSE 0

StandCredit_always(standing_, dms) == dms

StandCredit(standing_, dms) == IF standing_ THEN dms ELSE 0

Accumulate ==
    /\ pc = "sleep"
    /\ \E t \in Times :
         LET dms == AccumDelta(t - last_state_ts)
         IN  /\ total_ms + dms <= MaxTotalMs
             /\ now' = t
             /\ total_ms' = total_ms + dms
             /\ stand_ms' = stand_ms + StandCredit(standing, dms)
             /\ last_state_ts' = t
    /\ pc' = "drain"
    /\ elapsed' = 0
    /\ nframes' = 0
    /\ unread' = Len(inbound)
    /\ drainedWater' = FALSE
    /\ wxTry' = <<"none">>
    /\ cmTry' = <<"none">>
    /\ sawStandBefore' = sawStand
    /\ UNCHANGED <<cfg, last_water_ts, standing, weather, commute_min, polls,
                   last_print, inbound, out, nsent, sawStand, wxFailAt,
                   cmFailAt>>

----------------------------------------------------------------------------
(* Step b: the drain loop, one iteration per step *)

DrainEnd ==
    /\ pc = "drain"
    /\ inbound = <<>>
    /\ pc' = "weather"
    /\ UNCHANGED <<cfg, now, last_water_ts, posture, weather, commute_min,
                   polls, last_print, inbound, out, elapsed, nsent, hist>>

DrainLine ==
    /\ pc = "drain"
    /\ inbound # <<>>
    /\ LET line == ReadLine(Head(inbound))
       IN  /\ inbound' = Tail(inbound)
           /\ unread' = IMax(0, unread - 1)
           /\ pc' = IF line = <<>> THEN "weather" ELSE "drain"
           /\ IF line # <<>> /\ line = L_WATER
              THEN /\ last_water_ts' = now + elapsed
                   /\ drainedWater' = TRUE
              ELSE UNCHANGED <<last_water_ts, drainedWater>>
           /\ IF line # <<>> /\ line # L_WATER /\ StartsWith(line, <<"S", ",">>)
              THEN /\ standing' = EndsWith(line, "1")
                   /\ sawStand' = (sawStand \/ EndsWith(line, "1"))
              ELSE UNCHANGED <<standing, sawStand>>
    /\ UNCHANGED <<cfg, now, stand_ms, total_ms, last_state_ts, weather,
                   commute_min, polls, last_print, out, elapsed, nsent,
                   nframes, wxTry, cmTry, sawStandBefore, wxFailAt, cmFailAt>>

----------------------------------------------------------------------------
(* Step c: poll weather *)

WeatherDue == now - last_weather_poll > WEATHER_POLL_SEC

WeatherSkip ==
    /\ pc = "weather"
    /\ ~WeatherDue
    /\ pc' = "commute"
    /\ UNCHANGED <<cfg, now, last_water_ts, posture, weather, commute_min,
                   polls, last_print, inbound, out, elapsed, nsent, hist>>

WeatherFetchOk_dropped ==
    /\ pc = "weather"
    /\ WeatherDue
    /\ \E r \in WeatherReadings, d \in {0, WeatherTimeoutSec} :
         /\ wxTry' = <<"ok", r>>
         /\ elapsed' = elapsed + d
    /\ UNCHANGED weather
    /\ wxFailAt' = NoTime
    /\ last_weather_poll' = now
    /\ pc' = "commute"
    /\ UNCHANGED <<cfg, now, last_water_ts, posture, commute_min,
                   last_traffic_poll, last_print, inbound, out, nsent,
                   nframes, unread, drainedWater, cmTry, sawStand,
                   sawStandBefore, cmFailAt>>

WeatherFetchOk ==
    /\ pc = "weather"
    /\ WeatherDue
    /\ \E r \in WeatherReadings, d \in {0, WeatherTimeoutSec} :
         /\ temp_f' = r[1]
         /\ wcode' = r[2]
         /\ wind_mph' = r[3]
         /\ wxTry' = <<"ok", r>>
         /\ elapsed' = elapsed + d
    /\ wxFailAt' = NoTime
    /\ last_weather_poll' = now
    /\ pc' = "commute"
    /\ UNCHANGED <<cfg, now, last_water_ts, posture, commute_min,
                   last_traffic_poll, last_print, inbound, out, nsent,
                   nframes, unread, drainedWater, cmTry, sawStand,
                   sawStandBefore, cmFailAt>>

WeatherFetchFail_no_advance ==
    /\ pc = "weather"
    /\ WeatherDue
    /\ \E d \in {0, WeatherTimeoutSec} : elapsed' = elapsed + d
    /\ wxTry' = <<"fail">>
    /\ wxFailAt' = <<now>>
    /\ pc' = "commute"
    /\ UNCHANGED <<cfg, now, last_water_ts, posture, weather, commute_min,
                   polls, last_print, inbound, out, nsent,
                   nframes, unread, drainedWater, cmTry, sawStand,
                   sawStandBefore, cmFailAt>>

WeatherFetchFail ==
    /\ pc = "weather"
    /\ WeatherDue
    /\ \E d \in {0, WeatherTimeoutSec} : elapsed' = elapsed + d
    /\ wxTry' = <<"fail">>
    /\ wxFailAt' = <<now>>
    /\ last_weather_poll' = now
    /\ pc' = "commute"
    /\ UNCHANGED <<cfg, now, last_water_ts, posture, weather, commute_min,
                   last_traffic_poll, last_print, inbound, out, nsent,
                   nframes, unread, drainedWater, cmTry, sawStand,
                   sawStandBefore, cmFailAt>>

----------------------------------------------------------------------------
(* Step d: poll commute *)

CommuteDue == now - last_traffic_poll > TRAFFIC_POLL_SEC

HasKey_ignored(key) == TRUE

HasKey(key) == key

CommuteSkip ==
    /\ pc = "commute"
    /\ ~CommuteDue
    /\ pc' = "score"
    /\ UNCHANGED <<cfg, now, last_water_ts, posture, weather, commute_min,
                   polls, last_print, inbound, out, elapsed, nsent, hist>>

CommuteNoKey ==
    /\ pc = "commute"
    /\ CommuteDue
    /\ ~HasKey(ORS_API_KEY)
    /\ last_traffic_poll' = now
    /\ pc' = "score"
    /\ UNCHANGED <<cfg, now, last_water_ts, posture, weather, commute_min,
                   last_weather_poll, last_print, inbound, out, elapsed,
                   nsent, hist>>

CommuteFetchOk ==
    /\ pc = "commute"
    /\ CommuteDue
    /\ HasKey(ORS_API_KEY)
    /\ \E m \in CommuteReadings, d \in {0, RouteTimeoutSec} :
         /\ commute_min' = m
         /\ cmTry' = <<"ok", m>>
         /\ elapsed' = elapsed + d
    /\ cmFailAt' = NoTime
    /\ last_traffic_poll' = now
    /\ pc' = "score"
    /\ UNCHANGED <<cfg, now, last_water_ts, posture, weather,
                   last_weather_poll, last_print, inbound, out, nsent,
                   nframes, unread, drainedWater, wxTry, sawStand,
                   sawStandBefore, wxFailAt>>

CommuteFetchFail ==
    /\ pc = "commute"
    /\ CommuteDue
    /\ HasKey(ORS_API_KEY)
    /\ \E d \in {0, RouteTimeoutSec} : elapsed' = elapsed + d
    /\ cmTry' = <<"fail">>
    /\ cmFailAt' = <<now>>
    /\ last_traffic_poll' = now
    /\ pc' = "score"
    /\ UNCHANGED <<cfg, now, last_water_ts, posture, weather, commute_min,
                   last_weather_poll, last_print, inbound, out, nsent,
                   nframes, unread, drainedWater, wxTry, sawStand,
                   sawStandBefore, wxFailAt>>

----------------------------------------------------------------------------
(* Steps e, f, g: score, send the frame, report *)

ScoreAndSend ==
    /\ pc = "score"
    /\ out' = send_update(GaugeVals(temp_f, wcode, wind_mph, last_water_ts,
                                    now + elapsed, stand_ms, total_ms,
                                    event_target_epoch, now, commute_min))
    /\ nframes' = nframes + 1
    /\ last_print' = IF now - last_print >= PRINT_EVERY_SEC THEN now
                     ELSE last_print
    /\ pc' = "sleep"
    /\ UNCHANGED <<cfg, now, last_water_ts, posture, weather, commute_min,
                   polls, inbound, elapsed, nsent, unread, drainedWater,
                   wxTry, cmTry, sawStand, sawStandBefore, wxFailAt, cmFailAt>>

----------------------------------------------------------------------------

Next ==
    \/ DeviceWrite
    \/ Accumulate
    \/ DrainEnd
    \/ DrainLine
    \/ WeatherSkip
    \/ WeatherFetchOk
    \/ WeatherFetchFail
    \/ CommuteSkip
    \/ CommuteNoKey
    \/ CommuteFetchOk
    \/ CommuteFetchFail
    \/ ScoreAndSend

Spec == Init /\ [][Next]_vars

----------------------------------------------------------------------------
(* The scoring step on its own: steps e and f applied to a RuntimeState    *)
(* drawn from a grid of inputs.                                            *)

MaxWcode == 99
WindSpeeds == {0, 5, 19, 20, 25}
ScoreNow == T0 + 3600

InitScore ==
    /\ pc = "score"
    /\ ORS_API_KEY = TRUE
    /\ now = ScoreNow
    /\ last_state_ts = ScoreNow
    /\ event_target_epoch \in {ScoreNow + 25200, ScoreNow - 100}
    /\ last_water_ts \in {ScoreNow - 3600, ScoreNow}
    /\ standing = TRUE
    /\ \E st \in { <<500000, 1000000>>, <<0, 0>> } :
         stand_ms = st[1] /\ total_ms = st[2]
    /\ temp_f \in {72, -10}
    /\ wcode \in 0..MaxWcode
    /\ wind_mph \in WindSpeeds
    /\ commute_min \in {20, 5}
    /\ last_weather_poll = ScoreNow
    /\ last_traffic_poll = ScoreNow
    /\ last_print = ScoreNow - TimeStep
    /\ inbound = <<>>
    /\ out = <<>>
    /\ elapsed \in {0, WeatherTimeoutSec + RouteTimeoutSec}
    /\ nsent = 0
    /\ nframes = 0
    /\ unread = 0
    /\ drainedWater = FALSE
    /\ wxTry = <<"ok", <<temp_f, wcode, wind_mph>> >>
    /\ cmTry = <<"ok", commute_min>>
    /\ sawStand = TRUE
    /\ sawStandBefore = TRUE
    /\ wxFailAt = NoTime
    /\ cmFailAt = NoTime

NextScore == ScoreAndSend

SpecScore == InitScore /\ [][NextScore]_vars

----------------------------------------------------------------------------
(* Properties *)

FrameOK(m) ==
    /\ Len(m) = 7
    /\ m[1] = "U"
    /\ \A i \in 2..7 : m[i] \in 0..100

TickOrder ==
    { <<"sleep", "drain">>, <<"drain", "weather">>, <<"weather", "commute">>,
      <<"commute", "score">>, <<"score", "sleep">> }

(* C1: 0 <= standingAccumulatedMs <= totalAccumulatedMs in every reachable *)
(* state, neither counter ever decreases, and a tick whose clock reading   *)
(* is not later than lastTickTime adds zero to both.                       *)
C1_Accumulators ==
    /\ [](0 <= stand_ms /\ stand_ms <= total_ms)
    /\ [][ /\ stand_ms' >= stand_ms
           /\ total_ms' >= total_ms
           /\ (pc = "sleep" /\ pc' = "drain" /\ now' <= last_state_ts)
                 => (stand_ms' = stand_ms /\ total_ms' = total_ms) ]_vars

(* a tick read a clock that had gone backward, after standing time accrued *)
C1_Witness ==
    /\ pc = "drain"
    /\ now = T0
    /\ total_ms = MaxTotalMs
    /\ stand_ms > 0
    /\ stand_ms < total_ms

(* C2: every tick writes exactly one frame, and every frame written is the *)
(* six scores weather, temperature, hydration, posture, event, commute in  *)
(* that order, each an integer in 0..100.                                  *)
C2_OneFramePerTick ==
    /\ out = <<>> \/ FrameOK(out)
    /\ pc \in {"drain", "weather", "commute", "score"} => nframes = 0
    /\ pc = "sleep" => nframes = (IF out = <<>> THEN 0 ELSE 1)
    /\ pc = "sleep" /\ nframes = 1 =>
         /\ out[2] = weather_value(wmo_to_kind(wcode, wind_mph))
         /\ out[3] = temp_value(temp_f)
         /\ out[4] = water_value(last_water_ts, now + elapsed)
         /\ out[5] = stand_value(stand_ms, total_ms)
         /\ out[6] = event_value(event_target_epoch - now)
         /\ out[7] = commute_value(commute_min)

(* a frame written from a cached temperature whose raw score is above 100 *)
C2_Witness ==
    /\ pc = "sleep"
    /\ nframes = 1
    /\ temp_f < 0
    /\ out[3] = 100
    /\ FrameOK(out)

(* C3: a failed weather fetch leaves the cached weather unchanged and      *)
(* still sets lastWeatherPollTime to the tick's time, the tick's frame is  *)
(* still written, and no weather fetch is attempted again until more than  *)
(* 300 s after the failed attempt; likewise the commute fetch with 120 s.  *)
C3_FailedFetchWaits ==
    /\ [][ (pc = "weather" /\ wxTry' = <<"fail">>)
             => /\ <<temp_f, wcode, wind_mph>>' = <<temp_f, wcode, wind_mph>>
                /\ last_weather_poll' = now ]_vars
    /\ [][ (pc = "weather" /\ wxTry' # <<"none">> /\ wxFailAt # NoTime)
             => now - wxFailAt[1] > 300 ]_vars
    /\ [][ (pc = "commute" /\ cmTry' = <<"fail">>)
             => /\ commute_min' = commute_min
                /\ last_traffic_poll' = now ]_vars
    /\ [][ (pc = "commute" /\ cmTry' # <<"none">> /\ cmFailAt # NoTime)
             => now - cmFailAt[1] > 120 ]_vars
    /\ []( (pc = "sleep" /\ (wxTry = <<"fail">> \/ cmTry = <<"fail">>))
             => (nframes = 1 /\ FrameOK(out)) )

(* a tick 200 s after a failed weather fetch has passed the weather step   *)
(* without fetching                                                        *)
C3_Witness ==
    /\ pc = "commute"
    /\ wxTry = <<"none">>
    /\ wxFailAt # NoTime
    /\ now - wxFailAt[1] = TimeStep
    /\ <<temp_f, wcode, wind_mph>> = DefaultWeather

(* C4: without a routing credential no commute fetch is attempted, the     *)
(* cached commute minutes keep their initial placeholder, and the commute  *)
(* element of every frame is the score of the placeholder.                 *)
C4_NoCredentialHoldsPlaceholder ==
    ~ORS_API_KEY =>
        /\ cmTry = <<"none">>
        /\ commute_min = DefaultCommute
        /\ out # <<>> => out[7] = 65

(* without a credential, a tick whose commute poll was due wrote a frame *)
C4_Witness ==
    /\ ~ORS_API_KEY
    /\ pc = "sleep"
    /\ nframes = 1
    /\ last_traffic_poll = now
    /\ now > T0
    /\ out[7] = 65

(* C5: when the drain step of a tick ends, no line that was available at   *)
(* the transport when it began remains unread, whatever the lines are.     *)
C5_DrainConsumesAll ==
    pc \in {"weather", "commute", "score", "sleep"} => unread = 0

(* the device-line text the spec recognises *)
Recognised(line) ==
    \/ line = L_WATER
    \/ /\ StartsWith(line, <<"S", ",">>)
       /\ (EndsWith(line, "0") \/ EndsWith(line, "1"))

(* C6: processing an inbound line that is neither the hydration marker nor *)
(* a posture line whose final character is 0 or 1 leaves every field of    *)
(* the RuntimeState unchanged.                                             *)
C6_IgnorableLineDropped ==
    [][ ( /\ pc = "drain"
          /\ inbound # <<>>
          /\ inbound' = Tail(inbound)
          /\ ~Recognised(ReadLine(Head(inbound))) )
        => RuntimeState' = RuntimeState ]_vars

(* C7: the steps of a tick run in the order accumulation, drain, polling,  *)
(* scoring, transmission, and the frame of a tick is scored from what the  *)
(* earlier steps of the same tick produced: hydration 95 after a drained   *)
(* marker, the newly fetched weather and commute readings, the             *)
(* accumulators as updated in the tick.                                    *)
C7_FrameSeesThisTick ==
    /\ [][ pc' # pc => <<pc, pc'>> \in TickOrder ]_vars
    /\ []( (pc = "sleep" /\ nframes = 1) =>
             /\ drainedWater => out[4] = 95
             /\ wxTry[1] = "ok" =>
                  /\ out[2] = weather_value(wmo_to_kind(wxTry[2][2], wxTry[2][3]))
                  /\ out[3] = temp_value(wxTry[2][1])
             /\ cmTry[1] = "ok" => out[7] = commute_value(cmTry[2])
             /\ out[5] = stand_value(stand_ms, total_ms) )

(* a tick that drained a marker, fetched both readings using the whole of  *)
(* both timeouts, and wrote its frame                                      *)
C7_Witness ==
    /\ pc = "sleep"
    /\ nframes = 1
    /\ drainedWater
    /\ wxTry = <<"ok", <<-10, 96, 25>> >>
    /\ cmTry = <<"ok", 60>>
    /\ elapsed = WeatherTimeoutSec + RouteTimeoutSec
    /\ stand_ms > 0
    /\ out = <<"U", 10, 100, 95, stand_value(stand_ms, total_ms),
               event_value(event_target_epoch - now), 30>>

(* the classifier as the spec words it: base category by first match in    *)
(* the order thunder, snow, rain, clear, cloud, else cloudy; then the wind *)
(* override; then the severe override                                      *)
SpecKind(c, w) ==
    LET base == IF c \in ThunderCodes THEN "thunder"
                ELSE IF c \in SnowCodes THEN "snow"
                ELSE IF c \in RainCodes THEN "rain"
                ELSE IF c = 0 THEN "sunny"
                ELSE IF c \in CloudCodes THEN "cloudy"
                ELSE "cloudy"
        k1 == IF w >= 20 /\ base # "thunder" THEN "wind" ELSE base
    IN  IF c \in {96, 99} THEN "severe" ELSE k1

SpecTicks(k) ==
    CASE k = "sunny" -> 95
      [] k = "cloudy" -> 75
      [] k = "rain" -> 57
      [] k = "thunder" -> 45
      [] k = "snow" -> 30
      [] k = "wind" -> 20
      [] k = "severe" -> 10

(* C8: for every weather code and wind speed the classifier returns the    *)
(* category of the spec's rule; codes 96 and 99 give severe (10) and code  *)
(* 95 gives thunder (45) at every wind speed, and every other code with    *)
(* wind >= 20 gives wind (20).                                             *)
C8_Classifier ==
    pc = "sleep" =>
        /\ out[2] = SpecTicks(SpecKind(wcode, wind_mph))
        /\ wcode \in {96, 99} => out[2] = 10
        /\ wcode = 95 => out[2] = 45
        /\ (wcode \notin {95, 96, 99} /\ wind_mph >= 20) => out[2] = 20

(* a most-severe thunderstorm code in high wind has been scored *)
C8_Witness ==
    /\ pc = "sleep"
    /\ wcode = 96
    /\ wind_mph = 25
    /\ out[2] = 10

(* the RuntimeState of the end-to-end example *)
C9_Example ==
    /\ temp_f = 72
    /\ wcode = 1
    /\ wind_mph = 5
    /\ last_water_ts = now - 3600
    /\ stand_ms = 500000
    /\ total_ms = 1000000
    /\ event_target_epoch = now + 7 * 3600
    /\ commute_min = 20

(* C9 as stated: the example's frame is [75, 28, 70, 10, 74, 58] *)
C9_AsStated ==
    (pc = "sleep" /\ C9_Example) => out = <<"U", 75, 28, 70, 10, 74, 58>>

(* C9 amended: the example's frame is [75, 28, 70, 10, 75, 62] *)
C9_EndToEnd ==
    (pc = "sleep" /\ C9_Example) => out = <<"U", 75, 28, 70, 10, 75, 62>>

(* the example's state has been scored and its frame written *)
C9_Witness ==
    /\ pc = "sleep"
    /\ C9_Example
    /\ nframes = 1
    /\ out[6] = 75
    /\ out[7] = 62

(* C10: the time between two ticks is credited to standingAccumulatedMs    *)
(* iff isStanding was true at the end of the earlier tick; the drain of a  *)
(* tick changes neither accumulator; so standingAccumulatedMs is 0 until   *)
(* the tick after the first posture line ending in 1 is drained.           *)
C10_CreditByPreviousPosture ==
    /\ [][ (pc = "sleep" /\ pc' = "drain")
             => stand_ms' - stand_ms =
                  (IF standing THEN total_ms' - total_ms ELSE 0) ]_vars
    /\ [][ pc = "drain" => (stand_ms' = stand_ms /\ total_ms' = total_ms) ]_vars
    /\ [](~sawStandBefore => stand_ms = 0)

(* the first posture line ending in 1 was drained in a tick that had       *)
(* accumulated time, and none of that time was credited to standing        *)
C10_Witness ==
    /\ pc = "weather"
    /\ sawStand
    /\ ~sawStandBefore
    /\ standing
    /\ total_ms > 0
    /\ stand_ms = 0

====
